---- MODULE Spec2Model ----
(***************************************************************************)
(* A model of the allocation and parsing helpers of                        *)
(* camkes/templates/macros.py: the interrupt descriptor parser             *)
(* (parse_dtb_node_interrupts), the notification and RPC badge allocators  *)
(* (global_endpoint_badges, global_rpc_endpoint_badges), the virtqueue     *)
(* client-id allocator (virtqueue_get_client_id) and the group-label       *)
(* canonicaliser (integrity_group_labels).                                 *)
(*                                                                         *)
(* The helpers are pure functions of a composition and a configuration.    *)
(* Each is an operator computed the way the code computes it; each         *)
(* specification draws the inputs in Init and has the template driver call *)
(* the helper, recording what it returned or raised.                       *)
(*                                                                         *)
(* Python's None is the empty set and a present value v the set {v}.       *)
(***************************************************************************)
EXTENDS Integers, Sequences, FiniteSets

VARIABLES
    composition,    \* the composition (or, for the parser, nothing)
    configuration,  \* the configuration store
    args,           \* the arguments of the calls made so far
    result          \* what the calls returned or raised

vars == <<composition, configuration, args, result>>

None == {}
Some(v) == {v}
Get(opt, default) == IF opt = {} THEN default ELSE CHOOSE v \in opt : TRUE
Val(opt) == CHOOSE v \in opt : TRUE

Range(s) == {s[i] : i \in DOMAIN s}

(***************************************************************************)
(* Bitwise arithmetic on Python's unbounded non-negative integers.         *)
(***************************************************************************)
RECURSIVE BitAnd(_, _)
BitAnd(a, b) ==
    IF a = 0 \/ b = 0 THEN 0
    ELSE (a % 2) * (b % 2) + 2 * BitAnd(a \div 2, b \div 2)

RECURSIVE BitOr(_, _)
BitOr(a, b) ==
    IF a = 0 THEN b
    ELSE IF b = 0 THEN a
    ELSE (IF a % 2 = 1 \/ b % 2 = 1 THEN 1 ELSE 0) + 2 * BitOr(a \div 2, b \div 2)

\* a & ~m : the bits of a that are not bits of m.
RECURSIVE BitAndNot(_, _)
BitAndNot(a, m) ==
    IF a = 0 THEN 0
    ELSE (IF a % 2 = 1 /\ m % 2 = 0 THEN 1 ELSE 0) + 2 * BitAndNot(a \div 2, m \div 2)

RECURSIVE Pow2(_)
Pow2(n) == IF n = 0 THEN 1 ELSE 2 * Pow2(n - 1)

Min(a, b) == IF a <= b THEN a ELSE b

(***************************************************************************)
(* parse_dtb_node_interrupts                                               *)
(***************************************************************************)
\* Cell values that tell the cases apart: a type of 0 or not, flags below 4
\* or not, flags with one of the two low bits set or not.
CellValues == {0, 2, 4, 5}
MaxCells == 8
MaxIrqLimit == 1
ArmArchs == {"aarch32", "arm_hyp", "aarch64"}
Archs == {"aarch64", "riscv64"}

is_arch_arm(arch) == arch \in ArmArchs

\* A device-tree node: node.get('interrupts'), node.get('interrupts_extended').
Node(ints, ext) == [interrupts |-> ints, interrupts_extended |-> ext]

Returned(v) == [raised |-> "no", value |-> v]
Raised(kind) == [raised |-> kind, value |-> <<>>]

Descriptor(irq, trigger) == [irq |-> irq, trigger |-> trigger]

\* arm_descriptor with the extended form read four cells per interrupt.
arm_descriptor_stride4(interrupts, is_extended_interrupts, i) ==
    LET _trigger == IF is_extended_interrupts THEN interrupts[i*4+3 + 1]
                                              ELSE interrupts[i*3+2 + 1]
        _irq     == IF is_extended_interrupts THEN interrupts[i*4+2 + 1]
                                              ELSE interrupts[i*3+1 + 1]
        _irq_spi == IF is_extended_interrupts THEN interrupts[i*4+1 + 1]
                                              ELSE interrupts[i*3+0 + 1]
    IN [irq |-> IF _irq_spi = 0 THEN _irq + 32 ELSE _irq,
        trigger |-> IF _trigger < 4 THEN 1 ELSE 0]

\* Lines 729-742, for i in range(0, num_interrupts) of the ARM branch.
arm_descriptor(interrupts, is_extended_interrupts, i) ==
    LET _trigger == IF is_extended_interrupts THEN interrupts[i*3+3 + 1]
                                              ELSE interrupts[i*3+2 + 1]
        _irq     == IF is_extended_interrupts THEN interrupts[i*3+2 + 1]
                                              ELSE interrupts[i*3+1 + 1]
        _irq_spi == IF is_extended_interrupts THEN interrupts[i*3+1 + 1]
                                              ELSE interrupts[i*3+0 + 1]
    IN Descriptor(IF _irq_spi = 0 THEN _irq + 32 ELSE _irq,
                  IF _trigger < 4 THEN 1 ELSE 0)

\* Lines 717-743.
parse_arm(interrupts, is_extended_interrupts, max_num_interrupts) ==
    LET num_interrupts == IF is_extended_interrupts THEN Len(interrupts) \div 4
                                                    ELSE Len(interrupts) \div 3
    IN IF max_num_interrupts # -1 /\ num_interrupts > max_num_interrupts
       THEN \* raise TemplateError(...) % (max_num_interrupts): the % is applied
            \* to the exception object, which has no such operator.
            Raised("TypeError")
       ELSE Returned([k \in 1..num_interrupts |->
                        arm_descriptor(interrupts, is_extended_interrupts, k - 1)])

\* generic_descriptor with only bit 0 of the flags taken as edge triggered.
generic_descriptor_bit0(interrupts, interrupt_cells, arch, i) ==
    LET parse_int(offs) == interrupts[(i * interrupt_cells) + offs + 1]
        irq       == parse_int(IF interrupt_cells = 3 THEN 1 ELSE 0)
        irq_flags == IF interrupt_cells = 3 THEN Some(parse_int(2)) ELSE None
        irq_type  == IF interrupt_cells = 3 THEN Some(parse_int(0)) ELSE None
        is_edge_triggered == irq_flags = None \/ BitAnd(Val(irq_flags), 1) # 0
        is_arm_spi == irq_type # None /\ is_arch_arm(arch) /\ Val(irq_type) = 0
    IN Descriptor(IF is_arm_spi THEN irq + 32 ELSE irq,
                  IF is_edge_triggered THEN 1 ELSE 0)

\* Lines 780-832, one round of the loop of the generic branch.
generic_descriptor(interrupts, interrupt_cells, arch, i) ==
    LET parse_int(offs) == interrupts[(i * interrupt_cells) + offs + 1]
        irq       == parse_int(IF interrupt_cells = 3 THEN 1 ELSE 0)
        irq_flags == IF interrupt_cells = 3 THEN Some(parse_int(2)) ELSE None
        irq_type  == IF interrupt_cells = 3 THEN Some(parse_int(0)) ELSE None
        is_edge_triggered == irq_flags = None \/ BitAnd(Val(irq_flags), 3) # 0
        is_arm_spi == irq_type # None /\ is_arch_arm(arch) /\ Val(irq_type) = 0
    IN Descriptor(IF is_arm_spi THEN irq + 32 ELSE irq,
                  IF is_edge_triggered THEN 1 ELSE 0)

\* Lines 756-834.
parse_generic(all_interrupts, is_extended_interrupts, max_num_interrupts, arch) ==
    IF is_extended_interrupts /\ Len(all_interrupts) <= 1
    THEN Returned(<<>>)
    ELSE
    LET interrupts == IF is_extended_interrupts THEN Tail(all_interrupts)
                                                ELSE all_interrupts
        interrupt_cells == IF Len(interrupts) < 3 THEN 1 ELSE 3
        num_interrupts == Len(interrupts) \div interrupt_cells
    IN IF Len(interrupts) % interrupt_cells # 0
       THEN Raised("TemplateError")
       ELSE IF max_num_interrupts # -1 /\ num_interrupts > max_num_interrupts
       THEN Raised("TemplateError")
       ELSE Returned([k \in 1..num_interrupts |->
                        generic_descriptor(interrupts, interrupt_cells, arch, k - 1)])

\* Lines 690-834.
parse_dtb_node_interrupts(node, max_num_interrupts, arch) ==
    IF node.interrupts = None /\ node.interrupts_extended = None
    THEN Returned(<<>>)
    ELSE
    LET is_extended_interrupts == node.interrupts = None
        interrupts == IF is_extended_interrupts THEN Val(node.interrupts_extended)
                                                ELSE Val(node.interrupts)
    IN IF is_arch_arm(arch)
       THEN parse_arm(interrupts, is_extended_interrupts, max_num_interrupts)
       ELSE parse_generic(interrupts, is_extended_interrupts, max_num_interrupts, arch)

\* The nodes holding the cell list l: as 'interrupts', as 'interrupts_extended',
\* and the node with neither property.
NodesOf(l) == {Node(Some(l), None), Node(None, Some(l)), Node(None, None)}
IrqLimits == {-1} \cup 0..MaxIrqLimit

\* args is the sequence of the calls the template makes, result the sequence of
\* their outcomes so far. The template makes one call per rendered device.
InitIrq ==
    /\ composition = <<>>
    /\ configuration = <<>>
    /\ \E n \in 0..MaxCells : \E l \in [1..n -> CellValues] :
       \E node \in NodesOf(l), max_num_interrupts \in IrqLimits, arch \in Archs :
          args = <<[node |-> node, max_num_interrupts |-> max_num_interrupts,
                    arch |-> arch]>>
    /\ result = <<>>

\* parse_dtb_node_interrupts(node, max_num_interrupts, arch) runs and returns or
\* raises.
CallParse ==
    /\ Len(result) < Len(args)
    /\ LET a == args[Len(result) + 1]
       IN result' = Append(result,
               parse_dtb_node_interrupts(a.node, a.max_num_interrupts, a.arch))
    /\ UNCHANGED <<composition, configuration, args>>

NextIrq == CallParse
SpecIrq == InitIrq /\ [][NextIrq]_vars

\* The cell list of a node that has one, and whether it is the extended one.
NodeHasList(node) == node.interrupts # None \/ node.interrupts_extended # None
NodeIsExtended(node) == node.interrupts = None
NodeCells(node) == IF node.interrupts # None THEN Val(node.interrupts)
                                              ELSE Val(node.interrupts_extended)

\* The number of interrupts a node declares: on ARM a third of the cells (a
\* quarter of the extended list); elsewhere the cells left after the
\* controller reference, one per interrupt below three cells, else three.
DeclaredInterrupts(node, arch) ==
    LET L == Len(NodeCells(node))
        rest == IF NodeIsExtended(node) THEN L - 1 ELSE L
    IN IF is_arch_arm(arch)
       THEN (IF NodeIsExtended(node) THEN L \div 4 ELSE L \div 3)
       ELSE (IF rest < 3 THEN rest ELSE rest \div 3)

\* C9: on the ARM branch and on the non-ARM branch alike, a node that declares
\* more interrupts than a max_num_interrupts other than -1 makes the call raise
\* TemplateError and return no descriptors, and a returned sequence is never
\* longer than max_num_interrupts.
C9_TooManyRaisesTemplateError ==
    \A k \in DOMAIN result :
        LET a == args[k]
            r == result[k]
        IN a.max_num_interrupts # -1 /\ NodeHasList(a.node) =>
            /\ DeclaredInterrupts(a.node, a.arch) > a.max_num_interrupts
                  => r.raised = "TemplateError" /\ r.value = <<>>
            /\ r.raised = "no" => Len(r.value) <= a.max_num_interrupts

\* C10: on an ARM target a list of L cells yields L div 3 descriptors read from
\* cells (3i, 3i+1, 3i+2) as (type, id, flags), an extended list L div 4
\* descriptors read from cells (3i+1, 3i+2, 3i+3); irq is id + 32 when type is
\* 0 and id otherwise, trigger is 1 when flags < 4 and 0 otherwise. The call
\* returns them whenever max_num_interrupts allows that many.
C10_ArmDescriptors ==
    \A k \in DOMAIN result :
        LET a == args[k]
            r == result[k]
            cells == NodeCells(a.node)
            first == IF NodeIsExtended(a.node) THEN 1 ELSE 0
            count == IF NodeIsExtended(a.node) THEN Len(cells) \div 4
                                               ELSE Len(cells) \div 3
        IN is_arch_arm(a.arch) /\ NodeHasList(a.node) =>
            /\ (a.max_num_interrupts = -1 \/ count <= a.max_num_interrupts)
                  => r.raised = "no"
            /\ r.raised = "no" =>
                /\ Len(r.value) = count
                /\ \A i \in 0..(count - 1) :
                     LET type  == cells[first + 3*i + 1]
                         id    == cells[first + 3*i + 2]
                         flags == cells[first + 3*i + 3]
                     IN /\ r.value[i + 1].irq = (IF type = 0 THEN id + 32 ELSE id)
                        /\ r.value[i + 1].trigger = (IF flags < 4 THEN 1 ELSE 0)

\* An extended list of eight cells parsed on ARM into two descriptors, the
\* second one an SPI.
C10_Witness ==
    \E k \in DOMAIN result :
        /\ is_arch_arm(args[k].arch)
        /\ args[k].node.interrupts_extended # None
        /\ Len(Val(args[k].node.interrupts_extended)) = 8
        /\ result[k].raised = "no"
        /\ Len(result[k].value) = 2
        /\ result[k].value[2] = [irq |-> 37, trigger |-> 0]

\* C11: on a target that is not ARM, with the controller reference of an
\* extended list dropped (an extended list of at most one cell gives the empty
\* sequence), L cells left and w = 1 if L < 3 else 3: the call raises
\* TemplateError if w does not divide L; otherwise it returns, whenever
\* max_num_interrupts allows that many, L/w descriptors in order, for w = 1 the
\* i-th {irq: cell i, trigger: 1} and for w = 3 the i-th {irq: cell 3i+1,
\* trigger: 1 if cell 3i+2 has one of its two low bits set else 0}, and no
\* irq is offset by 32.
C11_GenericDescriptors ==
    \A k \in DOMAIN result :
        LET a == args[k]
            r == result[k]
            all == NodeCells(a.node)
            first == IF NodeIsExtended(a.node) THEN 1 ELSE 0
            L == Len(all) - first
            w == IF L < 3 THEN 1 ELSE 3
            count == L \div w
            low2(flags) == flags % 4
        IN ~is_arch_arm(a.arch) /\ NodeHasList(a.node) =>
            IF NodeIsExtended(a.node) /\ Len(all) <= 1
            THEN r = Returned(<<>>)
            ELSE IF L % w # 0
            THEN r.raised = "TemplateError"
            ELSE /\ (a.max_num_interrupts = -1 \/ count <= a.max_num_interrupts)
                       => r.raised = "no"
                 /\ r.raised = "no" =>
                     /\ Len(r.value) = count
                     /\ \A i \in 0..(count - 1) :
                          IF w = 1
                          THEN r.value[i + 1] = Descriptor(all[first + i + 1], 1)
                          ELSE r.value[i + 1] =
                                   Descriptor(all[first + 3*i + 2],
                                              IF low2(all[first + 3*i + 3]) # 0
                                              THEN 1 ELSE 0)

\* An extended list of seven cells parsed on RISC-V into two descriptors: the
\* first of type 0 with flags 2, the second with neither low bit in its flags.
C11_Witness ==
    \E k \in DOMAIN result :
        /\ args[k].arch = "riscv64"
        /\ args[k].node.interrupts = None
        /\ args[k].node.interrupts_extended # None
        /\ Len(Val(args[k].node.interrupts_extended)) = 7
        /\ result[k].raised = "no"
        /\ result[k].value = <<Descriptor(5, 1), Descriptor(4, 0)>>
        /\ Val(args[k].node.interrupts_extended)[2] = 0

(***************************************************************************)
(* Compositions.  A connection has a connector type and two ordered        *)
(* sequences of ends; an end is known by its place (connection, side,      *)
(* position), which stands for the identity of the Python object.  The     *)
(* settings the configuration holds under str(end) are kept with the end.  *)
(***************************************************************************)
EndRef(ci, side, k) == [conn |-> ci, side |-> side, pos |-> k]

EndAt(comp, ref) ==
    IF ref.side = "from" THEN comp[ref.conn].from_ends[ref.pos]
                         ELSE comp[ref.conn].to_ends[ref.pos]

EndRefsOfConnection(c, ci) ==
    [k \in 1..Len(c.from_ends) |-> EndRef(ci, "from", k)]
    \o [k \in 1..Len(c.to_ends) |-> EndRef(ci, "to", k)]

\* Every end of the composition, connections in order, from_ends before to_ends.
RECURSIVE EndRefs(_, _)
EndRefs(comp, ci) ==
    IF ci > Len(comp) THEN <<>>
    ELSE EndRefsOfConnection(comp[ci], ci) \o EndRefs(comp, ci + 1)

\* The ends of one instance, in the same order.
OwnEnds(comp, instance) ==
    SelectSeq(EndRefs(comp, 1), LAMBDA ref : EndAt(comp, ref).instance = instance)

(***************************************************************************)
(* global_endpoint_badges                                                  *)
(***************************************************************************)
\* get_libsel4_constant('seL4_Value_BadgeBits'), kept small.
BadgeBits == 4

ThreadlessNames == {"seL4DTBHardwareThreadless", "seL4DTBHWThreadless"}

\* What a loop of the scan hands back: it ran through ("continue") with the
\* cursor moved on, it returned from the function, or it raised.
\* value holds the badges returned (one for a single badge); raw holds, for
\* each of them, the cursor value it was made of before the base was OR'd in.
Continue(next_badge) ==
    [status |-> "continue", next_badge |-> next_badge, kind |-> "",
     value |-> <<>>, raw |-> <<>>]
ReturnBadge(next_badge, base) ==
    [status |-> "return", next_badge |-> 0, kind |-> "badge",
     value |-> <<BitOr(next_badge, base)>>, raw |-> <<next_badge>>]
ReturnList(badges, raw) ==
    [status |-> "return", next_badge |-> 0, kind |-> "list",
     value |-> badges, raw |-> raw]
Raise(kind) ==
    [status |-> "raise", next_badge |-> 0, kind |-> kind,
     value |-> <<>>, raw |-> <<>>]

\* Lines 545-554.
RECURSIVE ge_set_next_badge(_, _)
ge_set_next_badge(next_badge, mask) ==
    IF next_badge >= Pow2(BadgeBits)
    THEN Raised("Exception")
    ELSE LET shifted == IF next_badge = 0 THEN 1 ELSE next_badge * 2
         IN IF BitAnd(shifted, mask) = 0
            THEN ge_set_next_badge(shifted, mask)
            ELSE Returned(shifted)

\* Lines 569-572: one badge per interrupt, the cursor stepped after each.
RECURSIVE ge_irq_badges(_, _, _, _, _, _)
ge_irq_badges(n, next_badge, base, mask, irq_badges, raw) ==
    IF n = 0
    THEN [raised |-> "no", next_badge |-> next_badge,
          irq_badges |-> irq_badges, raw |-> raw]
    ELSE LET stepped == ge_set_next_badge(next_badge, mask)
         IN IF stepped.raised # "no"
            THEN [raised |-> stepped.raised, next_badge |-> 0,
                  irq_badges |-> <<>>, raw |-> <<>>]
            ELSE ge_irq_badges(n - 1, stepped.value, base, mask,
                               Append(irq_badges, BitOr(next_badge, base)),
                               Append(raw, next_badge))

\* Lines 564-574: for to_end in c.to_ends, from position k on.
RECURSIVE ge_threadless_ends(_, _, _, _, _)
ge_threadless_ends(ctx, ci, c, k, next_badge) ==
    IF k > Len(c.to_ends) THEN Continue(next_badge)
    ELSE LET to_end == c.to_ends[k]
         IN IF ~to_end.generate_interrupts
            THEN ge_threadless_ends(ctx, ci, c, k + 1, next_badge)
            ELSE LET irqs == parse_dtb_node_interrupts(to_end.dtb, -1, ctx.arch)
                     got  == ge_irq_badges(Len(irqs.value), next_badge,
                                           ctx.base, ctx.mask, <<>>, <<>>)
                 IN IF irqs.raised # "no" THEN Raise(irqs.raised)
                    ELSE IF got.raised # "no" THEN Raise(got.raised)
                    ELSE IF ctx.end = EndRef(ci, "to", k)
                    THEN ReturnList(got.irq_badges, got.raw)
                    ELSE ge_threadless_ends(ctx, ci, c, k + 1, got.next_badge)

\* ge_global_ends with the cursor left where it is after an end that is not
\* the one asked for.
RECURSIVE ge_global_ends_no_step(_, _, _, _, _, _)
ge_global_ends_no_step(ctx, ci, ends, side, k, next_badge) ==
    IF k > Len(ends) THEN Continue(next_badge)
    ELSE IF ends[k].instance # ctx.instance
    THEN ge_global_ends_no_step(ctx, ci, ends, side, k + 1, next_badge)
    ELSE IF ctx.end = EndRef(ci, side, k)
    THEN ReturnBadge(next_badge, ctx.base)
    ELSE ge_global_ends_no_step(ctx, ci, ends, side, k + 1, next_badge)

\* Lines 576-580 (side "from") and 582-586 (side "to"): for i in the ends of
\* that side, from position k on.
RECURSIVE ge_global_ends(_, _, _, _, _, _)
ge_global_ends(ctx, ci, ends, side, k, next_badge) ==
    IF k > Len(ends) THEN Continue(next_badge)
    ELSE IF ends[k].instance # ctx.instance
    THEN ge_global_ends(ctx, ci, ends, side, k + 1, next_badge)
    ELSE IF ctx.end = EndRef(ci, side, k)
    THEN ReturnBadge(next_badge, ctx.base)
    ELSE LET stepped == ge_set_next_badge(next_badge, ctx.mask)
         IN IF stepped.raised # "no" THEN Raise(stepped.raised)
            ELSE ge_global_ends(ctx, ci, ends, side, k + 1, stepped.value)

\* ge_connection with the to_ends served before the from_ends.
ge_connection_to_ends_first(ctx, ci, c, next_badge) ==
    LET threadless ==
            IF /\ c.type.name \in ThreadlessNames
               /\ \E k \in DOMAIN c.to_ends : c.to_ends[k].instance = ctx.instance
            THEN ge_threadless_ends(ctx, ci, c, 1, next_badge)
            ELSE Continue(next_badge)
        to ==
            IF c.type.to_global_endpoint
            THEN ge_global_ends(ctx, ci, c.to_ends, "to", 1, threadless.next_badge)
            ELSE Continue(threadless.next_badge)
        from ==
            IF c.type.from_global_endpoint
            THEN ge_global_ends(ctx, ci, c.from_ends, "from", 1, to.next_badge)
            ELSE Continue(to.next_badge)
    IN IF threadless.status # "continue" THEN threadless
       ELSE IF to.status # "continue" THEN to
       ELSE from

\* Lines 563-586: the body of for c in composition.connections.
ge_connection(ctx, ci, c, next_badge) ==
    LET threadless ==
            IF /\ c.type.name \in ThreadlessNames
               /\ \E k \in DOMAIN c.to_ends : c.to_ends[k].instance = ctx.instance
            THEN ge_threadless_ends(ctx, ci, c, 1, next_badge)
            ELSE Continue(next_badge)
        from ==
            IF c.type.from_global_endpoint
            THEN ge_global_ends(ctx, ci, c.from_ends, "from", 1, threadless.next_badge)
            ELSE Continue(threadless.next_badge)
        to ==
            IF c.type.to_global_endpoint
            THEN ge_global_ends(ctx, ci, c.to_ends, "to", 1, from.next_badge)
            ELSE Continue(from.next_badge)
    IN IF threadless.status # "continue" THEN threadless
       ELSE IF from.status # "continue" THEN from
       ELSE to

\* Lines 562-588.
RECURSIVE ge_connections(_, _, _, _)
ge_connections(ctx, comp, ci, next_badge) ==
    IF ci > Len(comp) THEN Raise("Exception")
    ELSE LET done == ge_connection(ctx, ci, comp[ci], next_badge)
         IN IF done.status # "continue" THEN done
            ELSE ge_connections(ctx, comp, ci + 1, done.next_badge)

\* Lines 557-559.
ge_base(config, instance) == Get(config[instance].global_endpoint_base, 1)
ge_mask(config, instance) ==
    Get(config[instance].global_endpoint_mask,
        BitAndNot(Pow2(BadgeBits) - 1, ge_base(config, instance)))

\* Lines 532-588.
global_endpoint_badges(comp, end, config, arch) ==
    LET instance == EndAt(comp, end).instance
        base == ge_base(config, instance)
        mask == ge_mask(config, instance)
        ctx == [end |-> end, instance |-> instance, arch |-> arch,
                base |-> base, mask |-> mask]
        first == ge_set_next_badge(0, mask)
    IN IF first.raised # "no" THEN Raise(first.raised)
       ELSE ge_connections(ctx, comp, 1, first.value)

(***************************************************************************)
(* global_rpc_endpoint_badges                                              *)
(***************************************************************************)
\* rpc_set_next_badge with the bits outside the mask cleared, not carried.
rpc_set_next_badge_clears_bits(next_badge, mask) ==
    IF next_badge >= Min(Pow2(BadgeBits), mask)
    THEN Raised("Exception")
    ELSE Returned(BitAnd(next_badge, mask))

\* rpc_set_next_badge without the repair of the bits outside the mask.
rpc_set_next_badge_no_repair(next_badge, mask) ==
    IF next_badge >= Min(Pow2(BadgeBits), mask)
    THEN Raised("Exception")
    ELSE Returned(next_badge)

\* Lines 610-618.
RECURSIVE rpc_set_next_badge(_, _)
rpc_set_next_badge(next_badge, mask) ==
    IF next_badge >= Min(Pow2(BadgeBits), mask)
    THEN Raised("Exception")
    ELSE IF BitAnd(next_badge, mask) # next_badge
    THEN rpc_set_next_badge(BitAndNot(next_badge, mask) + next_badge, mask)
    ELSE Returned(next_badge)

\* Lines 611-617: the candidates set_next_badge repairs, in order, when it is
\* called with next_badge.
RECURSIVE rpc_repaired_candidates(_, _)
rpc_repaired_candidates(next_badge, mask) ==
    IF next_badge >= Min(Pow2(BadgeBits), mask)
    THEN <<>>
    ELSE IF BitAnd(next_badge, mask) # next_badge
    THEN <<next_badge>>
         \o rpc_repaired_candidates(BitAndNot(next_badge, mask) + next_badge, mask)
    ELSE <<>>

\* rpc_peer_badges with the cursor stepped from next_badge, not next_badge + 1.
RECURSIVE rpc_peer_badges_no_increment(_, _, _, _, _, _)
rpc_peer_badges_no_increment(n, next_badge, base, mask, badges, raw) ==
    IF n = 0
    THEN [raised |-> "no", next_badge |-> next_badge, badges |-> badges, raw |-> raw]
    ELSE LET stepped == rpc_set_next_badge(next_badge, mask)
         IN IF stepped.raised # "no"
            THEN [raised |-> stepped.raised, next_badge |-> 0,
                  badges |-> <<>>, raw |-> <<>>]
            ELSE rpc_peer_badges_no_increment(n - 1, stepped.value, base, mask,
                                 Append(badges, BitOr(next_badge, base)),
                                 Append(raw, next_badge))

\* Lines 630-632 and 639-641: one badge per end of the other side, the cursor
\* stepped after each.
RECURSIVE rpc_peer_badges(_, _, _, _, _, _)
rpc_peer_badges(n, next_badge, base, mask, badges, raw) ==
    IF n = 0
    THEN [raised |-> "no", next_badge |-> next_badge, badges |-> badges, raw |-> raw]
    ELSE LET stepped == rpc_set_next_badge(next_badge + 1, mask)
         IN IF stepped.raised # "no"
            THEN [raised |-> stepped.raised, next_badge |-> 0,
                  badges |-> <<>>, raw |-> <<>>]
            ELSE rpc_peer_badges(n - 1, stepped.value, base, mask,
                                 Append(badges, BitOr(next_badge, base)),
                                 Append(raw, next_badge))

\* Lines 628-635 (side "from", peers the to_ends) and 637-644 (side "to", peers
\* the from_ends): for i in the ends of that side, from position k on. badges
\* is empty whenever an end's peers are begun: it starts empty and is emptied
\* after every end of the instance.
RECURSIVE rpc_global_ends(_, _, _, _, _, _, _)
rpc_global_ends(ctx, ci, ends, peers, side, k, next_badge) ==
    IF k > Len(ends) THEN Continue(next_badge)
    ELSE IF ends[k].instance # ctx.instance
    THEN rpc_global_ends(ctx, ci, ends, peers, side, k + 1, next_badge)
    ELSE LET got == rpc_peer_badges(Len(peers), next_badge, ctx.base, ctx.mask,
                                    <<>>, <<>>)
         IN IF got.raised # "no" THEN Raise(got.raised)
            ELSE IF ctx.end = EndRef(ci, side, k)
            THEN ReturnList(got.badges, got.raw)
            ELSE rpc_global_ends(ctx, ci, ends, peers, side, k + 1, got.next_badge)

\* Lines 627-644: the body of for c in composition.connections.
rpc_connection(ctx, ci, c, next_badge) ==
    LET from ==
            IF c.type.from_global_rpc_endpoint
            THEN rpc_global_ends(ctx, ci, c.from_ends, c.to_ends, "from", 1, next_badge)
            ELSE Continue(next_badge)
        to ==
            IF c.type.to_global_rpc_endpoint
            THEN rpc_global_ends(ctx, ci, c.to_ends, c.from_ends, "to", 1,
                                 from.next_badge)
            ELSE Continue(from.next_badge)
    IN IF from.status # "continue" THEN from ELSE to

\* Lines 626-646.
RECURSIVE rpc_connections(_, _, _, _)
rpc_connections(ctx, comp, ci, next_badge) ==
    IF ci > Len(comp) THEN Raise("Exception")
    ELSE LET done == rpc_connection(ctx, ci, comp[ci], next_badge)
         IN IF done.status # "continue" THEN done
            ELSE rpc_connections(ctx, comp, ci + 1, done.next_badge)

\* Lines 621-623.
rpc_base(config, instance) == Get(config[instance].global_rpc_endpoint_base, 0)
rpc_mask(config, instance) ==
    Get(config[instance].global_rpc_endpoint_mask, Pow2(BadgeBits) - 2)

\* Lines 594-646.
global_rpc_endpoint_badges(comp, end, config) ==
    LET instance == EndAt(comp, end).instance
        base == rpc_base(config, instance)
        mask == rpc_mask(config, instance)
        ctx == [end |-> end, instance |-> instance, base |-> base, mask |-> mask]
        first == rpc_set_next_badge(1, mask)
    IN IF first.raised # "no" THEN Raise(first.raised)
       ELSE rpc_connections(ctx, comp, 1, first.value)

(***************************************************************************)
(* The compositions and configurations the badge allocators are run on.    *)
(* The instance whose badges are allocated is "a"; "b" is its peer.        *)
(***************************************************************************)
\* Compositions of two connections.
ConnectionIndex == 1..2
MaxBase == 3
MaxMask == 16

NoInterrupts == Node(None, None)
OneInterrupt == Node(Some(<<0, 5, 2>>), None)
TwoInterrupts == Node(Some(<<0, 5, 2, 1, 6, 4>>), None)

\* An end whose str(end) has no settings, and a hardware end with
\* generate_interrupts set and a device-tree node.
End(instance) ==
    [instance |-> instance, generate_interrupts |-> FALSE, dtb |-> NoInterrupts]
HardwareEnd(instance, dtb) ==
    [instance |-> instance, generate_interrupts |-> TRUE, dtb |-> dtb]

\* A connector type: its name and, for each of the four attributes, whether the
\* type declares it with a true default.
ConnectorType(name, from_ge, to_ge, from_rpc, to_rpc) ==
    [name |-> name,
     from_global_endpoint |-> from_ge, to_global_endpoint |-> to_ge,
     from_global_rpc_endpoint |-> from_rpc, to_global_rpc_endpoint |-> to_rpc]

GeConnectorTypes ==
    { ConnectorType("seL4GlobalAsynch", FALSE, TRUE, FALSE, FALSE),
      ConnectorType("seL4RPCCallSignal", TRUE, FALSE, FALSE, FALSE),
      ConnectorType("seL4VirtQueues", TRUE, TRUE, FALSE, FALSE),
      ConnectorType("seL4DTBHardwareThreadless", FALSE, FALSE, FALSE, FALSE),
      ConnectorType("seL4DTBHWThreadless", FALSE, TRUE, FALSE, FALSE) }

RpcConnectorTypes ==
    { ConnectorType("seL4RPCNoThreads", FALSE, FALSE, FALSE, TRUE),
      ConnectorType("seL4RPCOverMultiSharedData", FALSE, FALSE, TRUE, FALSE),
      ConnectorType("seL4RPCDataportSignal", FALSE, FALSE, TRUE, TRUE),
      ConnectorType("seL4RPCCall", FALSE, FALSE, FALSE, FALSE) }

\* The ends of a connection: "a" twice on one side, on both sides, behind an
\* end of "b", facing three ends of "b"; hardware ends with no, one and two
\* interrupts and one without generate_interrupts.
EndShapes ==
    { [from_ends |-> <<End("a"), End("a")>>,
       to_ends   |-> <<HardwareEnd("b", OneInterrupt)>>],
      [from_ends |-> <<End("b")>>,
       to_ends   |-> <<HardwareEnd("a", TwoInterrupts), End("a")>>],
      [from_ends |-> <<End("a")>>,
       to_ends   |-> <<HardwareEnd("b", OneInterrupt), HardwareEnd("a", NoInterrupts)>>],
      [from_ends |-> <<End("b"), End("a")>>,
       to_ends   |-> <<HardwareEnd("a", OneInterrupt)>>],
      [from_ends |-> <<End("b"), End("b"), End("b")>>,
       to_ends   |-> <<End("a")>>] }

Connection(type, ends) ==
    [type |-> type, from_ends |-> ends.from_ends, to_ends |-> ends.to_ends]

GeConnections == {Connection(t, e) : t \in GeConnectorTypes, e \in EndShapes}
RpcConnections == {Connection(t, e) : t \in RpcConnectorTypes, e \in EndShapes}

Optional(S) == {None} \cup {Some(v) : v \in S}

NoSettings ==
    [global_endpoint_base |-> None, global_endpoint_mask |-> None,
     global_rpc_endpoint_base |-> None, global_rpc_endpoint_mask |-> None]

\* configuration["a"] with the settings of one allocator; "b" has no settings.
GeConfigurations ==
    { [a |-> [NoSettings EXCEPT !.global_endpoint_base = base,
                                !.global_endpoint_mask = mask],
       b |-> NoSettings] :
         base \in Optional(0..MaxBase), mask \in Optional(0..MaxMask) }
RpcConfigurations ==
    { [a |-> [NoSettings EXCEPT !.global_rpc_endpoint_base = base,
                                !.global_rpc_endpoint_mask = mask],
       b |-> NoSettings] :
         base \in Optional(0..MaxBase), mask \in Optional(0..MaxMask) }

TargetArch == "aarch64"

Calls(macro, ends) == [k \in DOMAIN ends |-> [macro |-> macro, end |-> ends[k]]]

\* The template of instance "a" asks for the badge of each of its ends: the
\* notification badges of a composition of global-endpoint connectors, or the
\* RPC badges of a composition of global-rpc-endpoint connectors.
InitBadges ==
    /\ \/ /\ composition \in [ConnectionIndex -> GeConnections]
          /\ configuration \in GeConfigurations
          /\ args = Calls("global_endpoint_badges", OwnEnds(composition, "a"))
       \/ /\ composition \in [ConnectionIndex -> RpcConnections]
          /\ configuration \in RpcConfigurations
          /\ args = Calls("global_rpc_endpoint_badges", OwnEnds(composition, "a"))
    /\ result = <<>>

CallGlobalEndpointBadges ==
    /\ Len(result) < Len(args)
    /\ args[Len(result) + 1].macro = "global_endpoint_badges"
    /\ result' = Append(result,
           global_endpoint_badges(composition, args[Len(result) + 1].end,
                                  configuration, TargetArch))
    /\ UNCHANGED <<composition, configuration, args>>

CallGlobalRpcEndpointBadges ==
    /\ Len(result) < Len(args)
    /\ args[Len(result) + 1].macro = "global_rpc_endpoint_badges"
    /\ result' = Append(result,
           global_rpc_endpoint_badges(composition, args[Len(result) + 1].end,
                                      configuration))
    /\ UNCHANGED <<composition, configuration, args>>

NextBadges == CallGlobalEndpointBadges \/ CallGlobalRpcEndpointBadges
SpecBadges == InitBadges /\ [][NextBadges]_vars

IsGe(k) == args[k].macro = "global_endpoint_badges"
IsRpc(k) == args[k].macro = "global_rpc_endpoint_badges"
Returns(k) == result[k].status = "return"

\* The base and the mask in force for the calls of this behaviour.
BaseInForce ==
    IF \E k \in DOMAIN args : IsRpc(k) THEN rpc_base(configuration, "a")
                                       ELSE ge_base(configuration, "a")
MaskInForce ==
    IF \E k \in DOMAIN args : IsRpc(k) THEN rpc_mask(configuration, "a")
                                       ELSE ge_mask(configuration, "a")

\* No badge returned so far equals another: neither two badges of the lists of
\* two ends nor two badges of one list.
PairwiseDistinct ==
    \A i \in DOMAIN result, j \in DOMAIN result :
        Returns(i) /\ Returns(j) =>
            \A p \in DOMAIN result[i].value, q \in DOMAIN result[j].value :
                (i # j \/ p # q) => result[i].value[p] # result[j].value[q]

\* C1, as claimed: whatever global_endpoint_base and global_endpoint_mask are
\* configured, the badges global_endpoint_badges returns for the ends of an
\* instance (single badges and the elements of the interrupt lists) are
\* pairwise distinct.
C1_DistinctForAnyBaseAndMask ==
    (\A k \in DOMAIN args : IsGe(k)) => PairwiseDistinct

\* C1, amended: they are pairwise distinct when the base has no bit in common
\* with the mask (as with the default mask, which leaves the base's bits out).
C1_DistinctWhenBaseOutsideMask ==
    (\A k \in DOMAIN args : IsGe(k)) /\ BitAnd(BaseInForce, MaskInForce) = 0
        => PairwiseDistinct

\* Two ends of the instance served, one with a list of two interrupt badges
\* and one with a single badge, under a base outside the mask.
C1_Witness ==
    /\ \A k \in DOMAIN args : IsGe(k)
    /\ BitAnd(BaseInForce, MaskInForce) = 0
    /\ BaseInForce # 0
    /\ \E k \in DOMAIN result : result[k].kind = "list" /\ Len(result[k].value) = 2
    /\ \E k \in DOMAIN result : result[k].kind = "badge"

\* The number of ends on the other side of the connection of an end.
Peers(comp, ref) ==
    IF ref.side = "from" THEN Len(comp[ref.conn].to_ends)
                         ELSE Len(comp[ref.conn].from_ends)

\* What C2 says of one returned list: one badge per end of the other side,
\* each the cursor value OR'd with the base.
RpcListShape ==
    \A k \in DOMAIN result :
        IsRpc(k) /\ Returns(k) =>
            /\ result[k].kind = "list"
            /\ Len(result[k].value) = Peers(composition, args[k].end)
            /\ Len(result[k].raw) = Len(result[k].value)
            /\ \A p \in DOMAIN result[k].value :
                 result[k].value[p] = BitOr(result[k].raw[p], BaseInForce)

\* C2, as claimed: global_rpc_endpoint_badges returns for an end with N ends
\* on the other side a list of N badges, each the cursor value OR'd with the
\* base, and all badges handed to the instance are pairwise distinct for every
\* configured base and mask.
C2_ListAndDistinctForAnyBaseAndMask ==
    (\A k \in DOMAIN args : IsRpc(k)) => RpcListShape /\ PairwiseDistinct

\* C2, amended: the list is as claimed; the badges are pairwise distinct when
\* the base has no bit in common with the mask (as with the default base 0).
C2_ListAndDistinctWhenBaseOutsideMask ==
    (\A k \in DOMAIN args : IsRpc(k)) =>
        /\ RpcListShape
        /\ BitAnd(BaseInForce, MaskInForce) = 0 => PairwiseDistinct

\* An end facing three ends got three badges after another end got its own,
\* under a base other than 0 that lies outside the mask.
C2_Witness ==
    /\ \A k \in DOMAIN args : IsRpc(k)
    /\ BitAnd(BaseInForce, MaskInForce) = 0
    /\ BaseInForce # 0
    /\ \E i \in DOMAIN result, j \in DOMAIN result :
         /\ i # j
         /\ Returns(i) /\ Len(result[i].value) = 3
         /\ Returns(j) /\ Len(result[j].value) >= 1

\* C3: in both allocators every cursor value that is emitted has all its bits
\* inside the mask, before the base is OR'd in.
C3_RawInsideMask ==
    \A k \in DOMAIN result :
        \A p \in DOMAIN result[k].raw :
            BitAndNot(result[k].raw[p], MaskInForce) = 0

\* The RPC cursor was repaired over a hole of the mask (mask 13: from 1 to 4).
C3_Witness ==
    /\ MaskInForce = 13
    /\ \E k \in DOMAIN result :
         IsRpc(k) /\ Returns(k) /\ \E p \in DOMAIN result[k].raw : result[k].raw[p] = 4

\* C4: no returned badge reaches 2^BadgeBits, whatever base and mask are
\* configured.
C4_BadgesWithinBadgeBits ==
    \A k \in DOMAIN result :
        \A p \in DOMAIN result[k].value :
            result[k].value[p] < Pow2(BadgeBits)

\* A place in the enumeration order where one badge is consumed: the end it is
\* consumed for and the rule that consumes it.
Slot(ref, rule) == [end |-> ref, rule |-> rule]

\* n copies of x.
Repeat(x, n) == [j \in 1..n |-> x]

\* The interrupt slots of the to_ends of a connection, from position k on: one
\* per interrupt of each to_end that generates interrupts.
RECURSIVE InterruptSlots(_, _, _)
InterruptSlots(c, ci, k) ==
    IF k > Len(c.to_ends) THEN <<>>
    ELSE (IF c.to_ends[k].generate_interrupts
          THEN Repeat(Slot(EndRef(ci, "to", k), "interrupt"),
                      IF NodeHasList(c.to_ends[k].dtb)
                      THEN DeclaredInterrupts(c.to_ends[k].dtb, TargetArch)
                      ELSE 0)
          ELSE <<>>)
         \o InterruptSlots(c, ci, k + 1)

\* The slots of the ends of the instance on one side of a connection.
SideSlots(ends, ci, side, instance) ==
    LET refs == [k \in DOMAIN ends |-> Slot(EndRef(ci, side, k), side)]
    IN SelectSeq(refs, LAMBDA slot : ends[slot.end.pos].instance = instance)

\* The slots of one connection: the interrupt badges of a threadless connection
\* that has the instance among its to_ends, then the from_ends of the instance,
\* then its to_ends.
ConnectionSlots(c, ci, instance) ==
    (IF /\ c.type.name \in ThreadlessNames
        /\ \E k \in DOMAIN c.to_ends : c.to_ends[k].instance = instance
     THEN InterruptSlots(c, ci, 1) ELSE <<>>)
    \o (IF c.type.from_global_endpoint
        THEN SideSlots(c.from_ends, ci, "from", instance) ELSE <<>>)
    \o (IF c.type.to_global_endpoint
        THEN SideSlots(c.to_ends, ci, "to", instance) ELSE <<>>)

\* The enumeration order of the badges of an instance: connections in
\* declaration order.
RECURSIVE Slots(_, _, _)
Slots(comp, ci, instance) ==
    IF ci > Len(comp) THEN <<>>
    ELSE ConnectionSlots(comp[ci], ci, instance) \o Slots(comp, ci + 1, instance)

\* The i-th lowest set bit of mask, counting from 1.
NthSetBit(mask, i) ==
    CHOOSE b \in {Pow2(e) : e \in 0..(BadgeBits + 1)} :
        /\ BitAnd(b, mask) # 0
        /\ Cardinality({e \in 0..(BadgeBits + 1) :
                            Pow2(e) < b /\ BitAnd(Pow2(e), mask) # 0}) = i - 1

\* The places in the enumeration order of the badges returned by call k: the
\* interrupt slots of the end for a list, the first slot of the end for a
\* single badge.
SlotsReturned(k) ==
    LET slots == Slots(composition, 1, "a")
        own == {i \in DOMAIN slots : slots[i].end = args[k].end}
    IN IF result[k].kind = "list"
       THEN {i \in own : slots[i].rule = "interrupt"}
       ELSE {i \in own : \A j \in own : i <= j}

\* C13: badges are consumed in one enumeration order (connections in
\* declaration order; in a connection the threadless interrupt badges, then
\* the from_ends, then the to_ends of the instance) and the i-th badge
\* consumed is base OR the i-th lowest set bit of mask; with the defaults the
\* first badge is 3.
C13_IthBadgeIsIthMaskBit ==
    \A k \in DOMAIN result :
        (IsGe(k) /\ Returns(k)) =>
            LET places == SlotsReturned(k)
            IN /\ Cardinality(places) = Len(result[k].value)
               /\ \A p \in DOMAIN result[k].value :
                      \E i \in places :
                          /\ Cardinality({j \in places : j < i}) = p - 1
                          /\ result[k].raw[p] = NthSetBit(MaskInForce, i)
                          /\ result[k].value[p] =
                                 BitOr(BaseInForce, NthSetBit(MaskInForce, i))
               /\ ( /\ configuration["a"].global_endpoint_base = None
                    /\ configuration["a"].global_endpoint_mask = None
                    /\ 1 \in places )
                      => result[k].value[1] = 3

\* Under the default base and mask a list of two interrupt badges <<3, 5>> was
\* returned for the first end and the single badge 9 for an end of a later
\* connection.
C13_Witness ==
    /\ \A k \in DOMAIN args : IsGe(k)
    /\ configuration["a"].global_endpoint_base = None
    /\ configuration["a"].global_endpoint_mask = None
    /\ \E i \in DOMAIN result, j \in DOMAIN result :
         /\ i < j
         /\ Returns(i) /\ result[i].kind = "list" /\ result[i].value = <<3, 5>>
         /\ Returns(j) /\ result[j].kind = "badge" /\ result[j].value = <<9>>
         /\ args[i].end.conn < args[j].end.conn

\* The connection is one the interrupt rule applies to for the instance.
InterruptRuleApplies(c, instance) ==
    /\ c.type.name \in ThreadlessNames
    /\ \E k \in DOMAIN c.to_ends : c.to_ends[k].instance = instance

\* The slots of one connection when at most one rule handles it: the interrupt
\* badges alone where the interrupt rule applies, the from_ends and to_ends of
\* the instance elsewhere.
OneRuleConnectionSlots(c, ci, instance) ==
    IF InterruptRuleApplies(c, instance)
    THEN InterruptSlots(c, ci, 1)
    ELSE (IF c.type.from_global_endpoint
          THEN SideSlots(c.from_ends, ci, "from", instance) ELSE <<>>)
         \o (IF c.type.to_global_endpoint
             THEN SideSlots(c.to_ends, ci, "to", instance) ELSE <<>>)

RECURSIVE OneRuleSlots(_, _, _)
OneRuleSlots(comp, ci, instance) ==
    IF ci > Len(comp) THEN <<>>
    ELSE OneRuleConnectionSlots(comp[ci], ci, instance)
         \o OneRuleSlots(comp, ci + 1, instance)

\* C14: a connection the interrupt rule applies to is not handled by the
\* from/to-global-endpoint rules as well: its ends consume no badges other
\* than the interrupt badges, so every returned badge is the mask bit of its
\* place in the one-rule enumeration, and an end of such a connection never
\* receives a single badge.
C14_OneRulePerConnection ==
    \A k \in DOMAIN result :
        (IsGe(k) /\ Returns(k)) =>
            LET slots == OneRuleSlots(composition, 1, "a")
                places == {i \in DOMAIN slots : slots[i].end = args[k].end}
            IN /\ InterruptRuleApplies(composition[args[k].end.conn], "a")
                      => result[k].kind = "list"
               /\ Cardinality(places) = Len(result[k].value)
               /\ \A p \in DOMAIN result[k].value :
                      \E i \in places :
                          /\ Cardinality({j \in places : j < i}) = p - 1
                          /\ result[k].raw[p] = NthSetBit(MaskInForce, i)

\* The end is one the interrupt rule returns a list for.
IsInterruptEnd(comp, ref) ==
    /\ ref.side = "to"
    /\ InterruptRuleApplies(comp[ref.conn], EndAt(comp, ref).instance)
    /\ EndAt(comp, ref).generate_interrupts

\* The number of badges consumed by the ends enumerated up to and including
\* the end asked for, its whole interrupt list included; -1 for an end the
\* enumeration does not come to.
BadgesThrough(comp, ref) ==
    LET slots == Slots(comp, 1, "a")
        own == {i \in DOMAIN slots : slots[i].end = ref}
        c == comp[ref.conn]
    IN IF IsInterruptEnd(comp, ref)
       THEN Len(Slots(SubSeq(comp, 1, ref.conn - 1), 1, "a"))
            + Len(InterruptSlots([c EXCEPT !.to_ends = SubSeq(c.to_ends, 1, ref.pos)],
                                 ref.conn, 1))
       ELSE IF own = {} THEN -1
       ELSE CHOOSE i \in own : \A j \in own : i <= j

\* The number of set bits of mask below 2^BadgeBits.
MaskBits(mask) ==
    Cardinality({e \in 0..(BadgeBits - 1) : BitAnd(Pow2(e), mask) # 0})

\* C15: the call returns the badge or the badge list of the end whenever the
\* mask has at least as many set bits below 2^BadgeBits as the number of
\* badges consumed by the ends enumerated through that end.
C15_ReturnsWhenMaskHasEnoughBits ==
    \A k \in DOMAIN result :
        IsGe(k) =>
            LET needed == BadgesThrough(composition, args[k].end)
            IN (needed >= 0 /\ MaskBits(MaskInForce) >= needed) => Returns(k)

\* The number of ends of the instance among ends[1..upto].
OwnCount(ends, upto, instance) ==
    Cardinality({k \in 1..upto : ends[k].instance = instance})

\* The number of RPC badges one connection consumes for the instance: for each
\* of its from_ends one per to_end, then for each of its to_ends one per
\* from_end.
RpcConnectionBadges(c, instance) ==
    (IF c.type.from_global_rpc_endpoint
     THEN OwnCount(c.from_ends, Len(c.from_ends), instance) * Len(c.to_ends) ELSE 0)
    + (IF c.type.to_global_rpc_endpoint
       THEN OwnCount(c.to_ends, Len(c.to_ends), instance) * Len(c.from_ends) ELSE 0)

RECURSIVE RpcBadgesOfConnections(_, _, _)
RpcBadgesOfConnections(comp, upto, instance) ==
    IF upto = 0 THEN 0
    ELSE RpcConnectionBadges(comp[upto], instance)
         + RpcBadgesOfConnections(comp, upto - 1, instance)

\* The number of RPC badges consumed before the list of the end ref begins.
RpcBadgesBefore(comp, ref) ==
    LET c == comp[ref.conn]
    IN RpcBadgesOfConnections(comp, ref.conn - 1, "a")
       + (IF ref.side = "from"
          THEN OwnCount(c.from_ends, ref.pos - 1, "a") * Len(c.to_ends)
          ELSE (IF c.type.from_global_rpc_endpoint
                THEN OwnCount(c.from_ends, Len(c.from_ends), "a") * Len(c.to_ends)
                ELSE 0)
               + OwnCount(c.to_ends, ref.pos - 1, "a") * Len(c.from_ends))

\* All bits of n lie in mask.
InsideMask(n, mask) == BitAndNot(n, mask) = 0

\* The i-th smallest positive integer whose bits all lie in mask.
NthInsideMask(mask, i) ==
    CHOOSE n \in 1..Pow2(BadgeBits) :
        /\ InsideMask(n, mask)
        /\ Cardinality({m \in 1..(n - 1) : InsideMask(m, mask)}) = i - 1

SingleBit(n) == \E e \in 0..(BadgeBits + 1) : n = Pow2(e)

\* C16: from cursor 1 on, stepping by one after each allocation, every
\* candidate that is repaired has one bit outside the mask; the repaired
\* cursor is the smallest integer above the previous cursor whose bits all lie
\* in the mask, so the i-th cursor emitted is the i-th smallest such positive
\* integer; and every emitted cursor is below min(2^BadgeBits, mask).
C16_RepairIsSingleBitCarry ==
    \A k \in DOMAIN result :
        (IsRpc(k) /\ Returns(k)) =>
            LET mask == MaskInForce
                before == RpcBadgesBefore(composition, args[k].end)
                repaired(c) == rpc_repaired_candidates(c + 1, mask)
            IN /\ \A q \in DOMAIN repaired(0) :
                      SingleBit(BitAndNot(repaired(0)[q], mask))
               /\ \A p \in DOMAIN result[k].raw :
                      /\ \A q \in DOMAIN repaired(result[k].raw[p]) :
                             SingleBit(BitAndNot(repaired(result[k].raw[p])[q], mask))
                      /\ result[k].raw[p] = NthInsideMask(mask, before + p)
                      /\ result[k].raw[p] < Min(Pow2(BadgeBits), mask)

\* Under mask 13 the list of one end was made of the cursors 1, 4 and 5 (2
\* repaired to 4) and the list of a later end begins at 8 (6 repaired to 8).
C16_Witness ==
    /\ MaskInForce = 13
    /\ \E i \in DOMAIN result, j \in DOMAIN result :
         /\ IsRpc(i) /\ Returns(i) /\ result[i].raw = <<1, 4, 5>>
         /\ IsRpc(j) /\ Returns(j) /\ Len(result[j].raw) >= 1 /\ result[j].raw[1] = 8
         /\ rpc_repaired_candidates(6, 13) = <<6>>

(***************************************************************************)
(* virtqueue_get_client_id                                                 *)
(***************************************************************************)
\* The largest ID a configuration pins.
MaxPin == 2

\* Lines 665 and 674: configuration[instance.name].get("%s_id" % interface.name).
vq_configured_id(comp, config, ref) ==
    config[EndAt(comp, ref).instance][EndAt(comp, ref).interface]

\* vq_connection with the ends of a connection read to_ends first.
vq_connection_to_ends_first(comp, ci, instance) ==
    LET c == comp[ci]
        ends == [k \in 1..Len(c.to_ends) |-> EndRef(ci, "to", k)]
                \o [k \in 1..Len(c.from_ends) |-> EndRef(ci, "from", k)]
    IN IF c.type.name = "seL4VirtQueues"
       THEN SelectSeq(ends, LAMBDA i : EndAt(comp, i).instance = instance)
       ELSE <<>>

\* Lines 670-674: the ends one connection adds to the list connections.
vq_connection(comp, ci, instance) ==
    LET c == comp[ci]
        ends == EndRefsOfConnection(c, ci)
    IN IF c.type.name = "seL4VirtQueues"
       THEN SelectSeq(ends, LAMBDA i : EndAt(comp, i).instance = instance)
       ELSE <<>>

\* Lines 669-674: the list connections, from connection ci on.
RECURSIVE vq_connections(_, _, _)
vq_connections(comp, ci, instance) ==
    IF ci > Len(comp) THEN <<>>
    ELSE vq_connection(comp, ci, instance) \o vq_connections(comp, ci + 1, instance)

\* Lines 668 and 674: the list ids that goes with the list connections.
vq_ids(comp, config, connections) ==
    [index \in DOMAIN connections |-> vq_configured_id(comp, config, connections[index])]

\* vq_scan taking the current candidate without looking it up in ids.
vq_scan_without_lookup(ids, index, current_id, n) ==
    IF n = 0 THEN [ids |-> ids, current_id |-> current_id]
    ELSE [ids |-> [ids EXCEPT ![index] = Some(current_id)],
          current_id |-> current_id + 1]

\* Lines 678-683: for _ in ids, with n iterations left.
RECURSIVE vq_scan(_, _, _, _)
vq_scan(ids, index, current_id, n) ==
    IF n = 0 THEN [ids |-> ids, current_id |-> current_id]
    ELSE IF Some(current_id) \notin Range(ids)
    THEN [ids |-> [ids EXCEPT ![index] = Some(current_id)],
          current_id |-> current_id + 1]
    ELSE vq_scan(ids, index, current_id + 1, n - 1)

\* Lines 675-683: for index, c in enumerate(connections), from index on.
RECURSIVE vq_assign(_, _, _)
vq_assign(ids, index, current_id) ==
    IF index > Len(ids) THEN ids
    ELSE IF ids[index] = None
    THEN LET scanned == vq_scan(ids, index, current_id, Len(ids))
         IN vq_assign(scanned.ids, index + 1, scanned.current_id)
    ELSE vq_assign(ids, index + 1, current_id)

\* Line 684, list.index: the first position of x in s, 0 when there is none.
list_index(s, x) ==
    IF \E k \in DOMAIN s : s[k] = x
    THEN CHOOSE k \in DOMAIN s : s[k] = x /\ \A j \in 1..(k - 1) : s[j] # x
    ELSE 0

\* Lines 652-684.
virtqueue_get_client_id(comp, end, config) ==
    LET instance == EndAt(comp, end).instance
        connections == vq_connections(comp, 1, instance)
        ids == vq_assign(vq_ids(comp, config, connections), 1, 0)
        at == list_index(connections, end)
    IN IF at = 0 THEN Raised("ValueError") ELSE Returned(ids[at])

(***************************************************************************)
(* The calls of virtqueue_get_client_id a template of instance "a" makes.  *)
(***************************************************************************)
Interfaces == {"p", "q", "r"}

VqEnd(instance, interface) == [instance |-> instance, interface |-> interface]

VqConnectorTypes ==
    { ConnectorType("seL4VirtQueues", TRUE, TRUE, FALSE, FALSE),
      ConnectorType("seL4SharedData", FALSE, FALSE, FALSE, FALSE) }

VqEndShapes ==
    { [from_ends |-> <<VqEnd("a", "p"), VqEnd("a", "q")>>,
       to_ends   |-> <<VqEnd("b", "p")>>],
      [from_ends |-> <<VqEnd("b", "p")>>,
       to_ends   |-> <<VqEnd("a", "r")>>],
      [from_ends |-> <<VqEnd("a", "r")>>,
       to_ends   |-> <<VqEnd("a", "q"), VqEnd("b", "q")>>],
      [from_ends |-> <<VqEnd("b", "q")>>,
       to_ends   |-> <<VqEnd("a", "p"), VqEnd("a", "r")>>] }

VqConnections == {Connection(t, e) : t \in VqConnectorTypes, e \in VqEndShapes}

\* The <interface>_id settings: absent, or an integer, -1 included.
PinnedIds == Optional(-1..MaxPin)

VqConfigurations ==
    { [a |-> ids, b |-> [i \in Interfaces |-> None]] : ids \in [Interfaces -> PinnedIds] }

InitVq ==
    /\ composition \in [ConnectionIndex -> VqConnections]
    /\ configuration \in VqConfigurations
    /\ args = Calls("virtqueue_get_client_id", OwnEnds(composition, "a"))
    /\ result = <<>>

CallVirtqueueGetClientId ==
    /\ Len(result) < Len(args)
    /\ args[Len(result) + 1].macro = "virtqueue_get_client_id"
    /\ result' = Append(result,
           virtqueue_get_client_id(composition, args[Len(result) + 1].end,
                                   configuration))
    /\ UNCHANGED <<composition, configuration, args>>

NextVq == CallVirtqueueGetClientId

SpecVq == InitVq /\ [][NextVq]_vars

(***************************************************************************)
(* Claims about virtqueue_get_client_id.                                   *)
(***************************************************************************)
\* The ends of instance "a" that sit on seL4VirtQueues connections, in
\* declaration order: connections in order, from_ends before to_ends.
VirtQueueEnds ==
    SelectSeq(OwnEnds(composition, "a"),
              LAMBDA ref : composition[ref.conn].type.name = "seL4VirtQueues")

\* The setting <interface>_id of an end; None when the end is not pinned.
PinOf(ref) == configuration["a"][EndAt(composition, ref).interface]

PinnedSet == {Val(PinOf(ref)) : ref \in {r \in Range(VirtQueueEnds) : PinOf(r) # None}}

IdReturned(k) == result[k].raised = "no"

\* The IDs returned so far are non-negative integers, different for different
\* ends.
IdsNonNegativeAndDistinct ==
    /\ \A k \in DOMAIN result :
         IdReturned(k) => result[k].value # None /\ Val(result[k].value) >= 0
    /\ \A i \in DOMAIN result, j \in DOMAIN result :
         (i # j /\ IdReturned(i) /\ IdReturned(j)) => result[i].value # result[j].value

\* The pinned values are non-negative and no two ends are pinned to the same
\* value.
PinsNonNegativeAndDistinct ==
    /\ \A v \in PinnedSet : v >= 0
    /\ \A i \in DOMAIN VirtQueueEnds, j \in DOMAIN VirtQueueEnds :
         (i # j /\ PinOf(VirtQueueEnds[i]) # None)
             => PinOf(VirtQueueEnds[i]) # PinOf(VirtQueueEnds[j])

\* C5 as stated: for any configuration, pinned values included, the IDs
\* returned for the ends of an instance on seL4VirtQueues connections are
\* non-negative and pairwise distinct.
C5_IdsDistinctForAnyPins == IdsNonNegativeAndDistinct

\* C5 as amended: the IDs are non-negative and pairwise distinct when the
\* pinned values are non-negative and pairwise distinct themselves.
C5_IdsDistinctForDistinctPins ==
    PinsNonNegativeAndDistinct => IdsNonNegativeAndDistinct

\* Three ends served, a pinned one and unpinned ones, under valid pins.
C5_Witness ==
    /\ \A k \in DOMAIN args : args[k].macro = "virtqueue_get_client_id"
    /\ PinsNonNegativeAndDistinct
    /\ Cardinality({k \in DOMAIN result : IdReturned(k)}) >= 3
    /\ \E k \in DOMAIN result : IdReturned(k) /\ PinOf(args[k].end) # None
    /\ \E k \in DOMAIN result : IdReturned(k) /\ PinOf(args[k].end) = None

\* The k-th smallest non-negative integer outside the set P.
KthFree(k, P) ==
    CHOOSE v \in 0..(k + Cardinality(P)) :
        v \notin P /\ Cardinality({u \in 0..(v - 1) : u \notin P}) = k - 1

\* The number of unpinned ends among the first p ends of the instance.
UnpinnedUpTo(p) == Cardinality({q \in 1..p : PinOf(VirtQueueEnds[q]) = None})

\* The ID the claim gives to the end at position p of the declaration order.
ExpectedId(p) ==
    IF PinOf(VirtQueueEnds[p]) # None THEN PinOf(VirtQueueEnds[p])
    ELSE Some(KthFree(UnpinnedUpTo(p), PinnedSet))

\* C6: a pinned end keeps its pinned value and the k-th unpinned end, in
\* declaration order, gets the k-th smallest non-negative integer outside the
\* pinned set; no end is left without an integer.
C6_KthUnpinnedGetsKthFree ==
    \A k \in DOMAIN result :
        IdReturned(k) =>
            \E p \in DOMAIN VirtQueueEnds :
                /\ VirtQueueEnds[p] = args[k].end
                /\ result[k].value = ExpectedId(p)
                /\ result[k].value # None

\* One end pinned to 1 and two unpinned ends, declared on both sides of the
\* pinned one, which got 0 and 2.
C6_Witness ==
    /\ \A k \in DOMAIN args : args[k].macro = "virtqueue_get_client_id"
    /\ PinnedSet = {1}
    /\ Cardinality({p \in DOMAIN VirtQueueEnds : PinOf(VirtQueueEnds[p]) # None}) = 1
    /\ \E i \in DOMAIN result, j \in DOMAIN result, m \in DOMAIN result :
         /\ i < j /\ j < m
         /\ IdReturned(i) /\ result[i].value = Some(0)
         /\ IdReturned(j) /\ result[j].value = Some(1)
         /\ IdReturned(m) /\ result[m].value = Some(2)

(***************************************************************************)
(* integrity_group_labels                                                  *)
(*                                                                         *)
(* The dictionary group_labels is a function whose domain is its set of    *)
(* keys.                                                                   *)
(***************************************************************************)
EmptyDict == [x \in {} |-> x]

\* group_labels[key] = value
Put(dict, key, value) ==
    [x \in DOMAIN dict \cup {key} |-> IF x = key THEN value ELSE dict[x]]

\* get_canonical_label with the walk stopped, and the name returned, when a
\* name comes back.
RECURSIVE get_canonical_label_stops_on_cycle(_, _, _)
get_canonical_label_stops_on_cycle(group_labels, group, seen) ==
    IF group \notin DOMAIN group_labels THEN Returned(group)
    ELSE LET next == group_labels[group]
         IN IF next \in Range(seen) THEN Returned(next)
            ELSE get_canonical_label_stops_on_cycle(group_labels, next,
                                                    Append(seen, next))

\* Lines 495-501: the loop while group in group_labels.
RECURSIVE get_canonical_label_loop(_, _, _)
get_canonical_label_loop(group_labels, group, seen) ==
    IF group \notin DOMAIN group_labels THEN Returned(group)
    ELSE LET next == group_labels[group]
         IN IF next \in Range(seen) THEN Raised("TemplateError")
            ELSE get_canonical_label_loop(group_labels, next, Append(seen, next))

\* Lines 492-501.
get_canonical_label(group_labels, l) ==
    get_canonical_label_loop(group_labels, l, <<l>>)

\* Lines 506-508: for c in composition.instances, from position k on.
RECURSIVE igl_groups(_, _, _)
igl_groups(group_labels, instances, k) ==
    IF k > Len(instances) THEN Returned(group_labels)
    ELSE LET c == instances[k]
             label == get_canonical_label(group_labels, c.address_space)
         IN IF c.address_space = c.name
            THEN igl_groups(group_labels, instances, k + 1)
            ELSE IF label.raised # "no" THEN label
            ELSE igl_groups(Put(group_labels, c.name, label.value), instances, k + 1)

\* Lines 511-514: for c in composition.instances, from position k on.
RECURSIVE igl_configured(_, _, _, _)
igl_configured(group_labels, instances, config, k) ==
    IF k > Len(instances) THEN Returned(group_labels)
    ELSE LET c == instances[k]
             l == config[c.name].integrity_label
             label == get_canonical_label(group_labels, Val(l))
         IN IF l = None
            THEN igl_configured(group_labels, instances, config, k + 1)
            ELSE IF label.raised # "no" THEN label
            ELSE igl_configured(Put(group_labels, c.name, label.value),
                                instances, config, k + 1)

\* igl_connections with the instance names of the ends compared as they are,
\* not their canonical labels.
RECURSIVE igl_connections_by_instance_name(_, _, _)
igl_connections_by_instance_name(group_labels, connections, k) ==
    IF k > Len(connections) THEN Returned(group_labels)
    ELSE LET conn == connections[k]
             ends == conn.from_ends \o conn.to_ends
             groups == {ends[e].instance : e \in DOMAIN ends}
         IN IF Cardinality(groups) = 1
            THEN igl_connections_by_instance_name(
                     Put(group_labels, conn.name, CHOOSE group \in groups : TRUE),
                     connections, k + 1)
            ELSE igl_connections_by_instance_name(group_labels, connections, k + 1)

\* igl_connections with the labels of the from_ends only.
RECURSIVE igl_connections_from_ends_only(_, _, _)
igl_connections_from_ends_only(group_labels, connections, k) ==
    IF k > Len(connections) THEN Returned(group_labels)
    ELSE LET conn == connections[k]
             ends == conn.from_ends
             labels == {get_canonical_label(group_labels, ends[e].instance) :
                            e \in DOMAIN ends}
             groups == {label.value : label \in labels}
         IN IF \E label \in labels : label.raised # "no"
            THEN Raised("TemplateError")
            ELSE IF Cardinality(groups) = 1
            THEN igl_connections_from_ends_only(
                     Put(group_labels, conn.name, CHOOSE group \in groups : TRUE),
                     connections, k + 1)
            ELSE igl_connections_from_ends_only(group_labels, connections, k + 1)

\* Lines 517-521: for conn in composition.connections, from position k on.
RECURSIVE igl_connections(_, _, _)
igl_connections(group_labels, connections, k) ==
    IF k > Len(connections) THEN Returned(group_labels)
    ELSE LET conn == connections[k]
             ends == conn.from_ends \o conn.to_ends
             labels == {get_canonical_label(group_labels, ends[e].instance) :
                            e \in DOMAIN ends}
             groups == {label.value : label \in labels}
         IN IF \E label \in labels : label.raised # "no"
            THEN Raised("TemplateError")
            ELSE IF Cardinality(groups) = 1
            THEN igl_connections(Put(group_labels, conn.name,
                                     CHOOSE group \in groups : TRUE),
                                 connections, k + 1)
            ELSE igl_connections(group_labels, connections, k + 1)

\* igl_return with group_labels handed back as it stands.
igl_return_group_labels(group_labels) ==
    [raised |-> "no", value |-> group_labels, group_labels |-> group_labels]

\* Lines 523-526: the returned dictionary; value is the dictionary and
\* group_labels records the dictionary it was computed from.
igl_return(group_labels) ==
    LET labels == [c \in DOMAIN group_labels |->
                      get_canonical_label(group_labels, group_labels[c])]
    IN IF \E c \in DOMAIN labels : labels[c].raised # "no"
       THEN Raised("TemplateError")
       ELSE [raised |-> "no",
             value |-> [c \in DOMAIN labels |-> labels[c].value],
             group_labels |-> group_labels]

\* Lines 473-526.  comp has the fields instances and connections.
integrity_group_labels(comp, config) ==
    LET groups == igl_groups(EmptyDict, comp.instances, 1)
        configured == igl_configured(groups.value, comp.instances, config, 1)
        connected == igl_connections(configured.value, comp.connections, 1)
    IN IF groups.raised # "no" THEN groups
       ELSE IF configured.raised # "no" THEN configured
       ELSE IF connected.raised # "no" THEN connected
       ELSE igl_return(connected.value)

(***************************************************************************)
(* The calls of integrity_group_labels: three instances, each in its own   *)
(* address space or in a group's, with or without an integrity_label, and  *)
(* connections between them.  Here composition has the two fields the      *)
(* function reads, instances and connections.                              *)
(***************************************************************************)
InstanceNames == <<"A", "B", "C">>
ConnectionNames == <<"conn1", "conn2">>
Labels == {"A", "B", "C", "G"}

Instance(name, address_space) == [name |-> name, address_space |-> address_space]

LabelEnd(instance) == [instance |-> instance]

LabelEndShapes ==
    { [from_ends |-> <<LabelEnd("A")>>, to_ends |-> <<LabelEnd("A")>>],
      [from_ends |-> <<LabelEnd("A")>>, to_ends |-> <<LabelEnd("B")>>],
      [from_ends |-> <<LabelEnd("B")>>, to_ends |-> <<LabelEnd("B"), LabelEnd("C")>>] }

LabelCompositions ==
    { [instances |-> [k \in DOMAIN InstanceNames |->
                         Instance(InstanceNames[k], spaces[k])],
       connections |-> [ci \in ConnectionIndex |->
                         [name |-> ConnectionNames[ci],
                          from_ends |-> shapes[ci].from_ends,
                          to_ends |-> shapes[ci].to_ends]]] :
        spaces \in [DOMAIN InstanceNames -> Labels],
        shapes \in [ConnectionIndex -> LabelEndShapes] }

LabelConfigurations ==
    [Range(InstanceNames) -> [integrity_label : Optional(Labels)]]

InitLabels ==
    /\ composition \in LabelCompositions
    /\ configuration \in LabelConfigurations
    /\ args = <<[macro |-> "integrity_group_labels"]>>
    /\ result = <<>>

CallIntegrityGroupLabels ==
    /\ Len(result) < Len(args)
    /\ args[Len(result) + 1].macro = "integrity_group_labels"
    /\ result' = Append(result, integrity_group_labels(composition, configuration))
    /\ UNCHANGED <<composition, configuration, args>>

NextLabels == CallIntegrityGroupLabels

SpecLabels == InitLabels /\ [][NextLabels]_vars

(***************************************************************************)
(* The calls of get_canonical_label, for any dictionary group_labels over  *)
(* four names and any name to start from.                                  *)
(***************************************************************************)
Names == {"A", "B", "C", "D"}

Dicts == UNION {[keys -> Names] : keys \in SUBSET Names}

InitCanonical ==
    /\ composition = <<>>
    /\ configuration = <<>>
    /\ \E group_labels \in Dicts, l \in Names :
         args = <<[macro |-> "get_canonical_label",
                   group_labels |-> group_labels, l |-> l]>>
    /\ result = <<>>

CallGetCanonicalLabel ==
    /\ Len(result) < Len(args)
    /\ args[Len(result) + 1].macro = "get_canonical_label"
    /\ result' = Append(result,
           get_canonical_label(args[Len(result) + 1].group_labels,
                               args[Len(result) + 1].l))
    /\ UNCHANGED <<composition, configuration, args>>

NextCanonical == CallGetCanonicalLabel

SpecCanonical == InitCanonical /\ [][NextCanonical]_vars

(***************************************************************************)
(* Claims about integrity_group_labels and get_canonical_label.            *)
(***************************************************************************)
\* C7: every value of a returned mapping is canonical: it is not a key of the
\* mapping, and canonicalizing it gives it back unchanged.
C7_ReturnedLabelsCanonical ==
    \A k \in DOMAIN result :
        result[k].raised = "no" =>
            \A c \in DOMAIN result[k].value :
                /\ result[k].value[c] \notin DOMAIN result[k].value
                /\ get_canonical_label(result[k].group_labels, result[k].value[c])
                       = Returned(result[k].value[c])

\* A mapping was returned in which an instance and a connection have a label,
\* one of them reached through a redirect of its entry in group_labels.
C7_Witness ==
    \E k \in DOMAIN result :
        /\ args[k].macro = "integrity_group_labels"
        /\ result[k].raised = "no"
        /\ \E c \in DOMAIN result[k].value : c \in Range(InstanceNames)
        /\ \E c \in DOMAIN result[k].value : c \in Range(ConnectionNames)
        /\ \E c \in DOMAIN result[k].value :
               result[k].value[c] # result[k].group_labels[c]

\* The i-th name of the redirect chain that starts at l (the 0-th is l).
RECURSIVE ChainAt(_, _, _)
ChainAt(dict, l, i) == IF i = 0 THEN l ELSE dict[ChainAt(dict, l, i - 1)]

\* The chain has an i-th name: every name before it has a redirect.
ChainReaches(dict, l, i) == \A j \in 0..(i - 1) : ChainAt(dict, l, j) \in DOMAIN dict

\* The chain comes back to a name it has already been at.
ChainRevisits(dict, l) ==
    \E i \in 1..Cardinality(DOMAIN dict) :
        /\ ChainReaches(dict, l, i)
        /\ \E j \in 0..(i - 1) : ChainAt(dict, l, j) = ChainAt(dict, l, i)

\* C8: get_canonical_label raises the label-cycle error exactly when the
\* redirect chain of the start name revisits a name, and otherwise returns the
\* first name of the chain that has no redirect.
C8_RaisesExactlyOnRevisit ==
    \A k \in DOMAIN result :
        LET dict == args[k].group_labels
            l == args[k].l
        IN IF ChainRevisits(dict, l)
           THEN result[k] = Raised("TemplateError")
           ELSE \E i \in 0..Cardinality(DOMAIN dict) :
                    /\ ChainReaches(dict, l, i)
                    /\ ChainAt(dict, l, i) \notin DOMAIN dict
                    /\ result[k] = Returned(ChainAt(dict, l, i))

\* The cycle A -> B, B -> A raised for a name on it, with a third name that
\* leads into the cycle.
C8_Witness ==
    \E k \in DOMAIN result :
        /\ args[k].macro = "get_canonical_label"
        /\ args[k].group_labels = [x \in {"A", "B", "C"} |->
                                      IF x = "A" THEN "B" ELSE "A"]
        /\ args[k].l = "B"
        /\ result[k].raised = "TemplateError"

\* The name without a redirect that the chain of l ends at, in a dictionary in
\* which the chain of l does not come back on itself.
CanonicalOf(dict, l) ==
    LET last == CHOOSE i \in 0..Cardinality(DOMAIN dict) :
                    /\ ChainReaches(dict, l, i)
                    /\ ChainAt(dict, l, i) \notin DOMAIN dict
    IN ChainAt(dict, l, last)

\* The canonical labels of the instances of the ends of a connection.
LabelsOfEnds(dict, conn) ==
    {CanonicalOf(dict, (conn.from_ends \o conn.to_ends)[e].instance) :
         e \in DOMAIN (conn.from_ends \o conn.to_ends)}

IsInternal(dict, conn) == Cardinality(LabelsOfEnds(dict, conn)) = 1

LabelsReturned(k) ==
    args[k].macro = "integrity_group_labels" /\ result[k].raised = "no"

\* Every key of the returned mapping is mapped to its canonical label.
KeysMappedToCanonical(k) ==
    \A c \in DOMAIN result[k].value :
        result[k].value[c] = CanonicalOf(result[k].group_labels, c)

InternalConnectionsHaveEntry(k) ==
    \A ci \in DOMAIN composition.connections :
        IsInternal(result[k].group_labels, composition.connections[ci])
            => composition.connections[ci].name \in DOMAIN result[k].value

\* An instance in the address space of a group, or with an integrity_label.
IsGrouped(c) ==
    c.address_space # c.name \/ configuration[c.name].integrity_label # None

====
